---- MODULE Spec2Model ----
(***************************************************************************)
(* Model of the truck-simulation routing classes:                          *)
(*   src/src/routing.py          TruckRouting (Valhalla/OSRM + spatial)    *)
(*   src/src/routing_osrm_api.py TruckRouting (OSRM only, with fallback)   *)
(*                                                                         *)
(* Python floats are IEEE-754 binary64.  The two places where a float is   *)
(* truncated to an integer (the resampler's index and the duration in      *)
(* minutes) are modelled bit-exactly: a positive double is a record        *)
(* [m, e] standing for m * 2^e, where the significand m (2^52 <= m < 2^53) *)
(* is a little-endian sequence of 15-bit limbs.                            *)
(***************************************************************************)
EXTENDS Integers, Sequences, FiniteSets, TLC

VARIABLES
    pc,                      \* position of the caller: which call has returned
    route_points,            \* sample_route_to_minutes: the polyline passed in
    total_duration_minutes,  \* sample_route_to_minutes: the minutes passed in
    sampled_points,          \* what sample_route_to_minutes returned
    resampled_points,        \* what it returned when fed its own output
    impl,                    \* which class: "routing" or "routing_osrm_api"
    router_type,             \* self.router_type (routing.py)
    valhalla_url,            \* self.valhalla_url (routing.py)
    metros,                  \* self.metros, the region registry
    call,                    \* the generate_trajectory call and what the
                             \* outside world answered during it
    requests,                \* router HTTP requests issued by the call
    outcome,                 \* what the call raised or returned
    states_gdf,              \* self.states_gdf, the state boundary set
    nominatim,               \* what the geocoding service answers, per point
    coordinates,             \* the coordinates passed to a classification
    states,                  \* the list a classification returned
    events,                  \* the sleeps and lookups of a batch, in order
    speeds,                  \* calculate_rolling_mean_speeds: the speeds passed
    window,                  \* calculate_rolling_mean_speeds: the window passed
    rolling_means            \* what calculate_rolling_mean_speeds did

sampleVars == <<route_points, total_duration_minutes, sampled_points,
                resampled_points>>
trajectoryVars == <<impl, router_type, valhalla_url, metros, call, requests,
                    outcome>>
classifyVars == <<states_gdf, nominatim, coordinates, states, events>>
speedVars == <<speeds, window, rolling_means>>
vars == <<pc, sampleVars, trajectoryVars, classifyVars, speedVars>>

\* ------------------------------------------------------------------------
\* binary64 arithmetic on small operands
\* ------------------------------------------------------------------------

\* width of the binary64 significand (sys.float_info.mant_dig)
MantDig == 53

\* limbs are 15 bits wide, so that limb * limb stays below 2^31
LimbBits == 15
Limb == 2 ^ LimbBits

\* number of zero limbs put under the dividend: the quotient of two operands
\* below 2^15 then always has more than MantDig significant bits
DivShift == 5

RECURSIVE BigNorm(_)
\* drop the leading (high) zero limbs
BigNorm(x) ==
    IF x # <<>> /\ x[Len(x)] = 0 THEN BigNorm(SubSeq(x, 1, Len(x) - 1)) ELSE x

RECURSIVE BigMulFrom(_, _, _, _)
\* limbs i.. of x times the natural c < 2^15, plus carry
BigMulFrom(x, c, i, carry) ==
    IF i > Len(x) THEN (IF carry = 0 THEN <<>> ELSE <<carry>>)
    ELSE <<(x[i] * c + carry) % Limb>>
             \o BigMulFrom(x, c, i + 1, (x[i] * c + carry) \div Limb)

BigMulSmall(x, c) == BigMulFrom(x, c, 1, 0)

RECURSIVE BigDivFrom(_, _, _, _)
\* limbs 1..i of x, below the remainder r, divided by the natural d < 2^15
BigDivFrom(x, d, i, r) ==
    IF i = 0 THEN [q |-> <<>>, r |-> r]
    ELSE LET cur  == r * Limb + x[i]
             rest == BigDivFrom(x, d, i - 1, cur % d)
         IN  [q |-> Append(rest.q, cur \div d), r |-> rest.r]

BigDivSmall(x, d) ==
    LET qr == BigDivFrom(x, d, Len(x), 0) IN [q |-> BigNorm(qr.q), r |-> qr.r]

RECURSIVE BigInc(_)
\* x + 1
BigInc(x) ==
    IF x = <<>> THEN <<1>>
    ELSE IF x[1] + 1 < Limb THEN [x EXCEPT ![1] = x[1] + 1]
    ELSE <<0>> \o BigInc(SubSeq(x, 2, Len(x)))

RECURSIVE SmallBitLen(_)
SmallBitLen(n) == IF n = 0 THEN 0 ELSE 1 + SmallBitLen(n \div 2)

\* number of significant bits of a normalised x
BigBitLen(x) ==
    IF x = <<>> THEN 0 ELSE (Len(x) - 1) * LimbBits + SmallBitLen(x[Len(x)])

\* bit k of x (bit 0 is the least significant)
BigBit(x, k) ==
    IF k \div LimbBits + 1 > Len(x) THEN 0
    ELSE (x[k \div LimbBits + 1] \div (2 ^ (k % LimbBits))) % 2

\* x mod 2^n = 0
BigLowZero(x, n) ==
    /\ \A i \in 1..Len(x) : i <= n \div LimbBits => x[i] = 0
    /\ n \div LimbBits + 1 <= Len(x)
          => x[n \div LimbBits + 1] % (2 ^ (n % LimbBits)) = 0

\* floor(x / 2^n)
BigShr(x, n) ==
    IF n \div LimbBits >= Len(x) THEN <<>>
    ELSE BigDivSmall(SubSeq(x, n \div LimbBits + 1, Len(x)),
                     2 ^ (n % LimbBits)).q

RECURSIVE BigToNat(_)
\* the value of a (small) x
BigToNat(x) ==
    IF x = <<>> THEN 0 ELSE x[1] + Limb * BigToNat(SubSeq(x, 2, Len(x)))

\* x * 2^e rounded to MantDig bits, ties to even; sticky says that a nonzero
\* part below x has already been discarded
RoundEven(x, e, sticky) ==
    LET n    == BigBitLen(x) - MantDig
        q    == BigShr(x, n)
        up   == /\ BigBit(x, n - 1) = 1
                /\ (sticky \/ ~BigLowZero(x, n - 1) \/ BigBit(q, 0) = 1)
        qq   == IF up THEN BigInc(q) ELSE q
    IN  IF n <= 0 THEN [m |-> x, e |-> e]
        ELSE IF BigBitLen(qq) > MantDig
        THEN [m |-> BigShr(qq, 1), e |-> e + n + 1]
        ELSE [m |-> qq, e |-> e + n]

\* the double nearest to a / d, for naturals 0 < a, d < 2^15
FloatDiv(a, d) ==
    LET qr == BigDivSmall([i \in 1..(DivShift + 1) |->
                              IF i = DivShift + 1 THEN a ELSE 0], d)
    IN  RoundEven(qr.q, -(DivShift * LimbBits), qr.r # 0)

\* the double nearest to x * c, for a double x > 0 and a natural 0 < c < 2^15
FloatMul(x, c) == RoundEven(BigMulSmall(x.m, c), x.e, FALSE)

\* int(x) for a double x >= 0 whose integer part is small
FloatTrunc(x) ==
    IF x.e >= 0 THEN BigToNat(x.m) * (2 ^ x.e) ELSE BigToNat(BigShr(x.m, -x.e))

\* int((a / d) * c) as Python evaluates it on floats; a, c >= 0, d > 0
TruncMulDiv(a, d, c) ==
    IF a = 0 \/ c = 0 THEN 0 ELSE FloatTrunc(FloatMul(FloatDiv(a, d), c))

\* ------------------------------------------------------------------------
\* coordinates
\* ------------------------------------------------------------------------

RECURSIVE Gcd(_, _)
Gcd(a, b) == IF b = 0 THEN a ELSE Gcd(b, a % b)

\* a coordinate value n / d (d > 0) in lowest terms.  Coordinates of the
\* model are whole numbers of grid units, for which the float additions and
\* subtractions of interpolate_route are exact at both ends of a route; the
\* points in between are kept as exact fractions.
Frac(n, d) ==
    LET g == Gcd(IF n < 0 THEN -n ELSE n, d)
    IN  IF n = 0 THEN <<0, 1>> ELSE <<n \div g, d \div g>>

\* the i-th point of the grid, a (lat, lon) tuple
GridPoint(i) == <<Frac(i, 1), Frac(0 - i, 1)>>

\* Python's None where a coordinate tuple is expected
NoCoords == <<>>

Min(a, b) == IF a < b THEN a ELSE b
Max(a, b) == IF a > b THEN a ELSE b

RECURSIVE SeqsUpTo(_, _)
\* the sequences over S of length at most n
SeqsUpTo(S, n) ==
    IF n = 0 THEN {<<>>}
    ELSE LET shorter == SeqsUpTo(S, n - 1)
         IN  shorter \cup {Append(q, x) : q \in shorter, x \in S}

\* ------------------------------------------------------------------------
\* bounds
\* ------------------------------------------------------------------------

\* resampler inputs: polylines of at most MaxLen arbitrary points, durations
\* from -MaxNegMinutes to MaxMinutes
MaxLen == 4
MaxMinutes == 22
MaxNegMinutes == 2

\* registry of at most MaxMetros entries
MaxMetros == 3

\* great-circle distances of 0..MaxDistKm km between two metros
MaxDistKm == 30

\* router geometry of at most MaxRouteLen points, router durations of
\* 0..MaxDurationHalfMinutes half minutes
MaxRouteLen == 3
MaxDurationHalfMinutes == 3

\* ------------------------------------------------------------------------
\* interpolate_route and sample_route_to_minutes (identical in both classes)
\* ------------------------------------------------------------------------

\* start + (end - start) * ratio, ratio = minute / total if total > 0 else 0
Lerp(a, b, minute, total) ==
    IF total <= 0 \/ minute = 0 THEN a
    ELSE Frac(a[1] * b[2] * total + (b[1] * a[2] - a[1] * b[2]) * minute,
              a[2] * b[2] * total)

interpolate_route(start, end, total_minutes) ==
    IF total_minutes < 0 THEN <<>>
    ELSE [i \in 1..(total_minutes + 1) |->
             <<Lerp(start[1], end[1], i - 1, total_minutes),
               Lerp(start[2], end[2], i - 1, total_minutes)>>]

\* assumed average speed of the fallback route, km/h
FallbackSpeedKmh == 80
MinutesPerHour == 60
SecondsPerHour == 3600

\* the largest duration and the largest polyline the model resamples
TableMinutes ==
    Max(MaxMinutes, Max((MaxDistKm * MinutesPerHour) \div FallbackSpeedKmh,
                        MaxDurationHalfMinutes))
TablePoints == Max(Max(MaxLen, MaxRouteLen), TableMinutes + 1)

\* int((minute / total) * k) over the range the model uses, computed once
RatioIndex ==
    [total \in 1..TableMinutes |->
        [k \in 0..(TablePoints - 1) |->
            [minute \in 0..total |-> TruncMulDiv(minute, total, k)]]]

ScaledRatio(minute, total, k) ==
    IF total \in 1..TableMinutes /\ k \in 0..(TablePoints - 1)
           /\ minute \in 0..total
    THEN RatioIndex[total][k][minute]
    ELSE TruncMulDiv(minute, total, k)

\* mutant: the ratio is taken over one minute too many
PointIdxLate(minute, total, n) ==
    Min(ScaledRatio(minute, total + 1, n - 1), n - 1)

\* mutant: a non-positive duration maps every minute to the end of the route
PointIdxEnd(minute, total, n) ==
    Min(IF total > 0 THEN ScaledRatio(minute, total, n - 1) ELSE n - 1, n - 1)

\* the 0-based index into a polyline of n points chosen for a minute:
\*   ratio = minute / total if total > 0 else 0
\*   point_idx = min(int(ratio * (n - 1)), n - 1)
PointIdx(minute, total, n) ==
    Min(IF total > 0 THEN ScaledRatio(minute, total, n - 1) ELSE 0, n - 1)

sample_route_to_minutes(points, total) ==
    IF Len(points) <= 1 THEN points
    ELSE IF total < 0 THEN <<>>
    ELSE [i \in 1..(total + 1) |->
             points[PointIdx(i - 1, total, Len(points)) + 1]]

\* ------------------------------------------------------------------------
\* the resampler on its own
\* ------------------------------------------------------------------------

\* two distinct polyline vertices
Vertices == {GridPoint(1), GridPoint(2)}

\* the polylines resampled: every short polyline over the two vertices, and
\* the straight routes the fallback interpolator hands to the resampler
SampleInputs ==
    SeqsUpTo(Vertices, MaxLen)
        \cup {interpolate_route(GridPoint(1), GridPoint(2), t) :
                  t \in 0..MaxMinutes}

\* values of the variables a specification does not use
IdleSample ==
    /\ route_points = <<>>
    /\ total_duration_minutes = 0
    /\ sampled_points = <<>>
    /\ resampled_points = <<>>

NoCall == [start_metro |-> "", end_metro |-> "", start_coords |-> NoCoords,
           end_coords |-> NoCoords,
           response |-> [kind |-> "None", route_points |-> <<>>,
                         distance_meters |-> 0, duration_seconds |-> 0],
           distance_km |-> 0]

NoRouteData == [route_points |-> <<>>, distance_km |-> <<0, 1>>,
                duration_hours |-> <<0, 1>>, source |-> ""]

NoTrajectory == [start_metro |-> "", end_metro |-> "",
                 distance_km |-> <<0, 1>>, duration_minutes |-> 0,
                 route_points |-> <<>>]

NoOutcome == [status |-> "none", error |-> "", route_data |-> NoRouteData,
              trajectory |-> NoTrajectory]

IdleTrajectory ==
    /\ impl = ""
    /\ router_type = ""
    /\ valhalla_url = ""
    /\ metros = <<>>
    /\ call = NoCall
    /\ requests = 0
    /\ outcome = NoOutcome

\* Python's None where a string is expected
NoneValue == "<None>"

\* self.states_gdf = None
NoStates == [loaded |-> FALSE, name_column |-> NoneValue, features |-> <<>>]

IdleClassify ==
    /\ states_gdf = NoStates
    /\ nominatim = <<>>
    /\ coordinates = <<>>
    /\ states = <<>>
    /\ events = <<>>

\* no rolling mean was asked for
NoMeans == [status |-> "none", error |-> "", means |-> <<>>, same |-> FALSE]

IdleSpeeds ==
    /\ speeds = <<>>
    /\ window = 0
    /\ rolling_means = NoMeans

InitSample ==
    /\ pc = "start"
    /\ route_points \in SampleInputs
    /\ total_duration_minutes \in (0 - MaxNegMinutes)..MaxMinutes
    /\ sampled_points = <<>>
    /\ resampled_points = <<>>
    /\ IdleTrajectory
    /\ IdleClassify
    /\ IdleSpeeds

\* sampled = sample_route_to_minutes(route_points, total_duration_minutes)
Sample ==
    /\ pc = "start"
    /\ sampled_points' =
           sample_route_to_minutes(route_points, total_duration_minutes)
    /\ pc' = "sampled"
    /\ UNCHANGED <<route_points, total_duration_minutes, resampled_points,
                   trajectoryVars, classifyVars, speedVars>>

\* resampled = sample_route_to_minutes(sampled, total_duration_minutes)
Resample ==
    /\ pc = "sampled"
    /\ resampled_points' =
           sample_route_to_minutes(sampled_points, total_duration_minutes)
    /\ pc' = "resampled"
    /\ UNCHANGED <<route_points, total_duration_minutes, sampled_points,
                   trajectoryVars, classifyVars, speedVars>>

NextSample == Sample \/ Resample

SpecSample == InitSample /\ [][NextSample]_vars

\* C1: for a polyline of more than one point and total_minutes >= 1 the
\* resampled sequence has total_minutes + 1 points, starts at the first input
\* point and ends at the last input point.
C1_LengthAndEndpoints ==
    (pc = "sampled" /\ Len(route_points) > 1 /\ total_duration_minutes >= 1)
        => /\ Len(sampled_points) = total_duration_minutes + 1
           /\ sampled_points[1] = route_points[1]
           /\ sampled_points[total_duration_minutes + 1]
                  = route_points[Len(route_points)]

C1_Witness ==
    /\ pc = "sampled"
    /\ Len(route_points) = MaxLen
    /\ total_duration_minutes = MaxMinutes
    /\ route_points[1] # route_points[Len(route_points)]
    /\ Len(sampled_points) = MaxMinutes + 1
    /\ sampled_points[MaxMinutes + 1] = route_points[MaxLen]

\* C5: resampling a non-empty polyline to 0 minutes returns the one-element
\* sequence holding its first point, and for any total_minutes <= 0 every
\* output point is the first input point.
C5_NonPositiveMinutes ==
    (pc = "sampled" /\ route_points # <<>> /\ total_duration_minutes <= 0)
        => /\ total_duration_minutes = 0
                  => sampled_points = <<route_points[1]>>
           /\ \A i \in DOMAIN sampled_points :
                  sampled_points[i] = route_points[1]

C5_Witness ==
    /\ pc = "sampled"
    /\ Len(route_points) > 1
    /\ route_points[1] # route_points[Len(route_points)]
    /\ total_duration_minutes = 0
    /\ sampled_points = <<route_points[1]>>

\* C6: resampling is idempotent: resampling the output again to the same
\* total_minutes gives the same sequence.
C6_Idempotent ==
    pc = "resampled" => resampled_points = sampled_points

\* ------------------------------------------------------------------------
\* generate_trajectory
\* ------------------------------------------------------------------------

MetroNames == {"Atlanta", "Boston"}

\* names a caller may ask for: the registered ones and one that is not
RequestNames == MetroNames \cup {"Nowhere"}

\* the registries: any sequence of names, the i-th entry lying at grid point i
Registries ==
    {[i \in 1..Len(names) |->
         [name |-> names[i], lat |-> GridPoint(i)[1], lon |-> GridPoint(i)[2]]] :
     names \in SeqsUpTo(MetroNames, MaxMetros)}

\* the ways a router call fails: the first three are
\* requests.exceptions.RequestException (service unreachable, timeout, HTTP
\* error status), NoRoute is the ValueError raised for a response without a
\* route, KeyError is a response that lacks an expected field
RequestExceptions == {"ConnectionError", "Timeout", "HTTPError"}
FailureKinds == RequestExceptions \cup {"NoRoute", "KeyError"}

\* what the router service answers to a request from start to end: a failure,
\* or a route of at least two points leading from start to end, with its
\* length in metres and its duration in seconds
RouterResponses(start, end) ==
    {[kind |-> k, route_points |-> <<>>, distance_meters |-> 0,
      duration_seconds |-> 0] : k \in FailureKinds}
    \cup
    {[kind |-> "Ok", route_points |-> <<start>> \o via \o <<end>>,
      distance_meters |-> 1000 * (Len(via) + 1),
      duration_seconds |-> 30 * h] :
         via \in SeqsUpTo({GridPoint(i) : i \in 1..MaxMetros}, MaxRouteLen - 2),
         h \in 0..MaxDurationHalfMinutes}

\* the response recorded when no request was issued
NoResponse == [kind |-> "None", route_points |-> <<>>, distance_meters |-> 0,
               duration_seconds |-> 0]

\* haversine_distance(start, end), in km.  The trigonometry is left out: any
\* whole number of kilometres within the bound stands for the distance of
\* two different points, and a point is at distance 0 from itself.
HaversineDistances(start, end) ==
    IF start = end THEN {0} ELSE 0..MaxDistKm

RECURSIVE ScanMetros(_, _, _, _, _)
\* the loop over self.metros from entry i on; found holds the coordinates
\* assigned so far:
\*   if metro['name'] == start_metro: start_coords = (lat, lon)
\*   elif metro['name'] == end_metro: end_coords = (lat, lon)
ScanMetros(ms, i, start_metro, end_metro, found) ==
    IF i > Len(ms) THEN found
    ELSE ScanMetros(ms, i + 1, start_metro, end_metro,
             IF ms[i].name = start_metro
             THEN [found EXCEPT !.start_coords = <<ms[i].lat, ms[i].lon>>]
             ELSE IF ms[i].name = end_metro
             THEN [found EXCEPT !.end_coords = <<ms[i].lat, ms[i].lon>>]
             ELSE found)

RECURSIVE ScanMetrosNe(_, _, _, _, _)
ScanMetrosNe(ms, i, start_metro, end_metro, found) ==
    IF i > Len(ms) THEN found
    ELSE ScanMetrosNe(ms, i + 1, start_metro, end_metro,
             IF ms[i].name = start_metro
             THEN [found EXCEPT !.start_coords = <<ms[i].lat, ms[i].lon>>]
             ELSE IF ms[i].name # end_metro
             THEN [found EXCEPT !.end_coords = <<ms[i].lat, ms[i].lon>>]
             ELSE found)

\* mutant: the end is taken from the entries whose name differs from it
FindCoordsNe(ms, start_metro, end_metro) ==
    ScanMetrosNe(ms, 1, start_metro, end_metro,
                 [start_coords |-> NoCoords, end_coords |-> NoCoords])

\* mutant: every entry is tested as the start and as the end
RECURSIVE ScanMetrosTwice(_, _, _, _, _)
ScanMetrosTwice(ms, i, start_metro, end_metro, found) ==
    IF i > Len(ms) THEN found
    ELSE ScanMetrosTwice(ms, i + 1, start_metro, end_metro,
             [found EXCEPT
                 !.start_coords = IF ms[i].name = start_metro
                                  THEN <<ms[i].lat, ms[i].lon>> ELSE @,
                 !.end_coords = IF ms[i].name = end_metro
                                THEN <<ms[i].lat, ms[i].lon>> ELSE @])

FindCoordsTwice(ms, start_metro, end_metro) ==
    ScanMetrosTwice(ms, 1, start_metro, end_metro,
                    [start_coords |-> NoCoords, end_coords |-> NoCoords])

FindCoords(ms, start_metro, end_metro) ==
    ScanMetros(ms, 1, start_metro, end_metro,
               [start_coords |-> NoCoords, end_coords |-> NoCoords])

\* if not start_coords or not end_coords  (a coordinate tuple is never falsy)
MissingCoords(start_coords, end_coords) ==
    start_coords = NoCoords \/ end_coords = NoCoords

\* int(route_data['duration_hours'] * 60), duration_hours being the float
\* quotient hours[1] / hours[2]
TotalMinutes(hours) == TruncMulDiv(hours[1], hours[2], MinutesPerHour)

\* the dict built from a router response:
\*   distance_km = distance / 1000, duration_hours = duration / 3600
\* (distance_meters and duration_seconds are not read again and are left out)
RouterRouteData(response, source) ==
    [route_points   |-> response.route_points,
     distance_km    |-> Frac(response.distance_meters, 1000),
     duration_hours |-> <<response.duration_seconds, SecondsPerHour>>,
     source         |-> source]

\* _fallback_linear_route (routing_osrm_api.py):
\*   duration_hours = distance_km / 80
\*   duration_minutes = int(duration_hours * 60)
\*   route_points = interpolate_route(start, end, duration_minutes)
FallbackLinearRoute(start, end, distance_km) ==
    [route_points   |-> interpolate_route(start, end,
                            TotalMinutes(<<distance_km, FallbackSpeedKmh>>)),
     distance_km    |-> Frac(distance_km, 1),
     duration_hours |-> <<distance_km, FallbackSpeedKmh>>,
     source         |-> "fallback"]

\* what a get_..._route call did: raised an error, or returned route data
Raised(error) == [error |-> error, route_data |-> NoRouteData]
Returned(route_data) == [error |-> "", route_data |-> route_data]

\* get_osrm_route of routing.py: every failure is re-raised as RuntimeError
GetOsrmRouteRouting(response) ==
    IF response.kind = "Ok" THEN Returned(RouterRouteData(response, "osrm"))
    ELSE Raised("RuntimeError")

\* get_valhalla_route of routing.py: an unconfigured URL raises before any
\* request, and every failure is re-raised as RuntimeError
GetValhallaRoute(url, response) ==
    IF url # "None" /\ response.kind = "Ok"
    THEN Returned(RouterRouteData(response, "valhalla"))
    ELSE Raised("RuntimeError")

\* get_osrm_route of routing_osrm_api.py: both except clauses return the
\* fallback route
GetOsrmRouteApi(response, start, end, distance_km) ==
    IF response.kind = "Ok" THEN Returned(RouterRouteData(response, "osrm"))
    ELSE Returned(FallbackLinearRoute(start, end, distance_km))

\* the route step of generate_trajectory for the class and its configuration
GetRoute(class, type, url, response, start, end, distance_km) ==
    IF class = "routing_osrm_api"
    THEN GetOsrmRouteApi(response, start, end, distance_km)
    ELSE IF type = "valhalla" THEN GetValhallaRoute(url, response)
    ELSE GetOsrmRouteRouting(response)

\* does the route step send a request to the router service
IssuesRequest(class, type, url) ==
    ~(class = "routing" /\ type = "valhalla" /\ url = "None")

\* the dict generate_trajectory returns (avg_speed_kmh, which is handed
\* through untouched, and the constant osrm_used are left out)
Trajectory(start_metro, end_metro, route_data) ==
    LET total_minutes == TotalMinutes(route_data.duration_hours)
    IN  [start_metro      |-> start_metro,
         end_metro        |-> end_metro,
         distance_km      |-> route_data.distance_km,
         duration_minutes |-> total_minutes,
         route_points     |->
             sample_route_to_minutes(route_data.route_points, total_minutes)]

\* the configurations of the two classes after construction
Configurations ==
    {<<"routing", "osrm", "None">>, <<"routing", "valhalla", "None">>,
     <<"routing", "valhalla", "http://valhalla">>,
     <<"routing_osrm_api", "osrm", "None">>}

Init ==
    /\ pc = "idle"
    /\ \E c \in Configurations :
           /\ impl = c[1]
           /\ router_type = c[2]
           /\ valhalla_url = c[3]
    /\ metros \in Registries
    /\ call = NoCall
    /\ requests = 0
    /\ outcome = NoOutcome
    /\ IdleSample
    /\ IdleClassify
    /\ IdleSpeeds

\* generate_trajectory(start_metro, end_metro) with an unknown region:
\* raises ValueError before the router is called
GenerateTrajectoryInvalid ==
    /\ pc = "idle"
    /\ \E start_metro \in RequestNames, end_metro \in RequestNames :
         LET found == FindCoords(metros, start_metro, end_metro)
         IN  /\ MissingCoords(found.start_coords, found.end_coords)
             /\ call' = [start_metro  |-> start_metro,
                         end_metro    |-> end_metro,
                         start_coords |-> found.start_coords,
                         end_coords   |-> found.end_coords,
                         response     |-> NoResponse,
                         distance_km  |-> 0]
             /\ requests' = 0
             /\ outcome' = [NoOutcome EXCEPT !.status = "raised",
                                             !.error = "ValueError"]
    /\ pc' = "done"
    /\ UNCHANGED <<impl, router_type, valhalla_url, metros, sampleVars,
                   classifyVars, speedVars>>

\* generate_trajectory(start_metro, end_metro) with both regions found: asks
\* the router, resamples the route to one point per minute
GenerateTrajectoryRouted ==
    /\ pc = "idle"
    /\ \E start_metro \in RequestNames, end_metro \in RequestNames :
         LET found == FindCoords(metros, start_metro, end_metro)
             start == found.start_coords
             end   == found.end_coords
             asks  == IssuesRequest(impl, router_type, valhalla_url)
         IN  /\ ~MissingCoords(start, end)
             /\ \E response \in (IF asks THEN RouterResponses(start, end)
                                 ELSE {NoResponse}) :
                \E distance_km \in
                       (IF impl = "routing_osrm_api" /\ response.kind # "Ok"
                        THEN HaversineDistances(start, end) ELSE {0}) :
                  LET got == GetRoute(impl, router_type, valhalla_url,
                                      response, start, end, distance_km)
                  IN  /\ call' = [start_metro  |-> start_metro,
                                  end_metro    |-> end_metro,
                                  start_coords |-> start,
                                  end_coords   |-> end,
                                  response     |-> response,
                                  distance_km  |-> distance_km]
                      /\ requests' = IF asks THEN 1 ELSE 0
                      /\ outcome' =
                             IF got.error # ""
                             THEN [NoOutcome EXCEPT !.status = "raised",
                                                    !.error = got.error]
                             ELSE [status     |-> "returned",
                                   error      |-> "",
                                   route_data |-> got.route_data,
                                   trajectory |->
                                       Trajectory(start_metro, end_metro,
                                                  got.route_data)]
    /\ pc' = "done"
    /\ UNCHANGED <<impl, router_type, valhalla_url, metros, sampleVars,
                   classifyVars, speedVars>>

Next == GenerateTrajectoryInvalid \/ GenerateTrajectoryRouted

Spec == Init /\ [][Next]_vars

\* the names of the registry
Registered == {metros[i].name : i \in DOMAIN metros}

\* C2: when both names are registered and the router call fails, the call
\* does not raise: it returns a trajectory built from the fallback route.
C2_RouterFailureNonFatal ==
    (pc = "done" /\ requests > 0 /\ call.response.kind \in FailureKinds)
        => /\ outcome.status = "returned"
           /\ outcome.route_data.source = "fallback"

\* C3: a returned trajectory has duration_minutes >= 0 and exactly
\* duration_minutes + 1 points, and on the fallback path these are the
\* points the interpolator produced.
C3_TrajectoryShape ==
    outcome.status = "returned"
        => /\ outcome.trajectory.duration_minutes >= 0
           /\ Len(outcome.trajectory.route_points)
                  = outcome.trajectory.duration_minutes + 1
           /\ outcome.route_data.source = "fallback"
                  => outcome.trajectory.route_points
                         = outcome.route_data.route_points

\* C4: a request naming a region that is not in the registry raises
\* ValueError; no router request was issued and no trajectory is returned.
C4_UnknownRegion ==
    (pc = "done" /\ (call.start_metro \notin Registered
                        \/ call.end_metro \notin Registered))
        => /\ outcome.status = "raised"
           /\ outcome.error = "ValueError"
           /\ requests = 0
           /\ outcome.trajectory = NoTrajectory

C4_Witness ==
    /\ pc = "done"
    /\ call.start_metro \in Registered
    /\ call.end_metro \notin Registered
    /\ outcome.status = "raised"
    /\ outcome.error = "ValueError"
    /\ requests = 0

\* C7: the fallback route's polyline starts exactly at the start coordinate
\* and ends exactly at the end coordinate.
C7_FallbackEndpoints ==
    (outcome.status = "returned" /\ outcome.route_data.source = "fallback")
        => LET points == outcome.route_data.route_points
           IN  /\ points # <<>>
               /\ points[1] = call.start_coords
               /\ points[Len(points)] = call.end_coords

\* ------------------------------------------------------------------------
\* state classification
\* ------------------------------------------------------------------------

\* batches of at most MaxBatch coordinates
MaxBatch == 25

\* the points that are classified
Points == {GridPoint(1), GridPoint(2)}

\* the first n coordinates of base repeated over and over
Cycle(base, n) == [i \in 1..n |-> base[((i - 1) % Len(base)) + 1]]

BatchInputs ==
    {Cycle(base, n) : base \in {<<GridPoint(1)>>, <<GridPoint(1), GridPoint(2)>>},
                      n \in 0..MaxBatch}

\* the boundary files: a missing file, or a dataset whose features carry
\* their name (possibly null) in the column label and cover some points
Features ==
    {[name |-> n, geometry |-> g] :
        n \in {"Georgia", NoneValue},
        g \in {{GridPoint(1)}, {GridPoint(2)}, {GridPoint(1), GridPoint(2)}}}

BoundaryFiles ==
    {[found |-> FALSE, label |-> NoneValue, features |-> <<>>]}
    \cup {[found |-> TRUE, label |-> l, features |-> f] :
             l \in {"NAME", "name", "STUSPS"},
             f \in SeqsUpTo(Features, Cardinality(Points))}

\* __init__: read the boundary file; FileNotFoundError leaves None; a NAME
\* or name column is renamed to STATE_NAME
LoadStates(file) ==
    IF ~file.found THEN NoStates
    ELSE [loaded      |-> TRUE,
          name_column |-> IF file.label \in {"NAME", "name"}
                          THEN "STATE_NAME" ELSE file.label,
          features    |-> file.features]

\* the indices of the features whose geometry contains the point
Containing(gdf, point) ==
    {i \in DOMAIN gdf.features : point \in gdf.features[i].geometry}

SetMin(S) == CHOOSE x \in S : \A y \in S : x <= y

\* row.get('STATE_NAME', 'UNKNOWN'): the default is used only when the row
\* has no such column
RowGet(gdf, i) ==
    IF gdf.name_column = "STATE_NAME" THEN gdf.features[i].name ELSE "UNKNOWN"

get_state_for_coordinates(gdf, point) ==
    IF ~gdf.loaded THEN "UNKNOWN"
    ELSE IF Containing(gdf, point) = {} THEN "UNKNOWN"
    ELSE RowGet(gdf, SetMin(Containing(gdf, point)))

batch_spatial_analysis(gdf, coords) ==
    IF ~gdf.loaded THEN [i \in 1..Len(coords) |-> "UNKNOWN"]
    ELSE [i \in 1..Len(coords) |-> get_state_for_coordinates(gdf, coords[i])]

\* str.lower() and str.upper() on the strings of the model
Lower(s) ==
    CASE s = "California" -> "california"
      [] s = "Washington" -> "washington"
      [] s = "Ohio" -> "ohio"
      [] s = "US" -> "us"
      [] OTHER -> s

Upper(s) ==
    CASE s = "us" -> "US"
      [] OTHER -> s

\* the lookup table of reverse_geocode_state
state_mapping ==
    [s \in {"california", "texas", "florida", "new york", "pennsylvania",
            "illinois", "georgia", "massachusetts", "washington"} |->
        CASE s = "california" -> "CA"
          [] s = "texas" -> "TX"
          [] s = "florida" -> "FL"
          [] s = "new york" -> "NY"
          [] s = "pennsylvania" -> "PA"
          [] s = "illinois" -> "IL"
          [] s = "georgia" -> "GA"
          [] s = "massachusetts" -> "MA"
          [] s = "washington" -> "DC"]

\* what the geocoding service can answer: an error (unreachable, timeout,
\* HTTP error status, a body that is not JSON), or a JSON object with or
\* without an address, whose state and country_code may be missing
GeocoderResponses ==
    {[kind |-> "error", has_address |-> FALSE, state |-> NoneValue,
      country_code |-> NoneValue],
     [kind |-> "ok", has_address |-> FALSE, state |-> NoneValue,
      country_code |-> NoneValue]}
    \cup {[kind |-> "ok", has_address |-> TRUE, state |-> s,
           country_code |-> c] :
             s \in {NoneValue, "", "California", "Washington", "Ohio"},
             c \in {NoneValue, "us"}}

\* the answers used in batches
BatchResponses ==
    {r \in GeocoderResponses :
        \/ r.kind = "error"
        \/ ~r.has_address
        \/ (r.state \in {"California", "Ohio"} /\ r.country_code = "us")}

\* dict.get(key, '') of a key that may be missing
GetOr(value, default) == IF value = NoneValue THEN default ELSE value

\* state = address.get('state') or address.get('country_code', '').upper()
ResolveState(response) ==
    IF response.state \notin {NoneValue, ""} THEN response.state
    ELSE Upper(GetOr(response.country_code, ""))

reverse_geocode_state(response) ==
    IF response.kind = "error" THEN "UNKNOWN"
    ELSE LET state == ResolveState(response)
         IN  IF Lower(state) \in DOMAIN state_mapping
             THEN state_mapping[Lower(state)]
             ELSE IF state # "" THEN state ELSE "UNKNOWN"

\* lookups between two pauses of batch_reverse_geocode
BatchSize == 10

\* mutant: the first lookup is paused for as well
PauseBeforeEvery(i) == i % BatchSize = 0

\* if i > 0 and i % 10 == 0: time.sleep(delay)
PauseBefore(i) == i > 0 /\ i % BatchSize = 0

RECURSIVE BatchLoop(_, _, _, _)
\* the loop of batch_reverse_geocode from the 0-based index i on; done holds
\* the states appended and the sleeps and lookups made so far
BatchLoop(coords, service, i, done) ==
    IF i >= Len(coords) THEN done
    ELSE LET slept == IF PauseBefore(i)
                      THEN Append(done.events, <<"sleep">>) ELSE done.events
         IN  BatchLoop(coords, service, i + 1,
                 [states |-> Append(done.states,
                                    reverse_geocode_state(service[coords[i + 1]])),
                  events |-> Append(slept, <<"lookup", i>>)])

batch_reverse_geocode(coords, service) ==
    BatchLoop(coords, service, 0, [states |-> <<>>, events |-> <<>>])

\* the service down for every point
ServiceDown ==
    [p \in Points |-> [kind |-> "error", has_address |-> FALSE,
                       state |-> NoneValue, country_code |-> NoneValue]]

InitClassify ==
    /\ pc = "ready"
    /\ states_gdf \in {LoadStates(file) : file \in BoundaryFiles}
    /\ nominatim = ServiceDown
    /\ coordinates = <<>>
    /\ states = <<>>
    /\ events = <<>>
    /\ IdleSample
    /\ IdleTrajectory
    /\ IdleSpeeds

\* states = batch_spatial_analysis(coordinates)
BatchSpatialAnalysis ==
    /\ pc = "ready"
    /\ \E coords \in BatchInputs :
           /\ coordinates' = coords
           /\ states' = batch_spatial_analysis(states_gdf, coords)
    /\ pc' = "spatial_done"
    /\ UNCHANGED <<states_gdf, nominatim, events, sampleVars, trajectoryVars,
                   speedVars>>

\* states = batch_reverse_geocode(coordinates), the service answering each
\* point in its own way
BatchReverseGeocode ==
    /\ pc = "ready"
    /\ \E coords \in BatchInputs, service \in [Points -> BatchResponses] :
           LET done == batch_reverse_geocode(coords, service)
           IN  /\ coordinates' = coords
               /\ nominatim' = service
               /\ states' = done.states
               /\ events' = done.events
    /\ pc' = "geocode_done"
    /\ UNCHANGED <<states_gdf, sampleVars, trajectoryVars, speedVars>>

\* states = [reverse_geocode_state(lat, lon)] for one point and any answer
ReverseGeocodeState ==
    /\ pc = "ready"
    /\ \E point \in Points, response \in GeocoderResponses :
           /\ coordinates' = <<point>>
           /\ nominatim' = [p \in Points |-> response]
           /\ states' = <<reverse_geocode_state(response)>>
    /\ pc' = "geocoded"
    /\ UNCHANGED <<states_gdf, events, sampleVars, trajectoryVars,
                   speedVars>>

NextClassify ==
    BatchSpatialAnalysis \/ BatchReverseGeocode \/ ReverseGeocodeState

SpecClassify == InitClassify /\ [][NextClassify]_vars

\* did the boundary lookup of a point fail: no boundary set, no polygon
\* around the point, or a matched feature without a usable name
SpatialLookupFails(point) ==
    \/ ~states_gdf.loaded
    \/ Containing(states_gdf, point) = {}
    \/ states_gdf.name_column # "STATE_NAME"
    \/ states_gdf.features[SetMin(Containing(states_gdf, point))].name
           \in {NoneValue, ""}

\* C8: a batch classification returns one result per coordinate, each a
\* non-empty string, and 'UNKNOWN' for every coordinate whose lookup failed.
C8_BatchNeverEmpty ==
    pc \in {"spatial_done", "geocode_done"}
        => /\ Len(states) = Len(coordinates)
           /\ \A i \in DOMAIN states :
                  /\ states[i] \notin {NoneValue, ""}
                  /\ (pc = "spatial_done" /\ SpatialLookupFails(coordinates[i]))
                         => states[i] = "UNKNOWN"
                  /\ (pc = "geocode_done"
                          /\ nominatim[coordinates[i]].kind = "error")
                         => states[i] = "UNKNOWN"

\* the 2-letter codes of the lookup table
StateCodes == {state_mapping[s] : s \in DOMAIN state_mapping}

\* C9: reverse_geocode_state returns the mapped 2-letter code when the
\* address carries a state of the lookup table, and otherwise the country
\* code or 'UNKNOWN', never the unmapped state name.
C9_CodeOrUnknown ==
    pc = "geocoded"
        => LET response == nominatim[coordinates[1]]
               mapped   == /\ response.kind = "ok"
                           /\ Lower(response.state) \in DOMAIN state_mapping
           IN  /\ mapped => states[1] = state_mapping[Lower(response.state)]
               /\ ~mapped =>
                      states[1] \in {"UNKNOWN",
                                     Upper(GetOr(response.country_code,
                                                 "UNKNOWN"))}
               /\ states[1] \in StateCodes \cup {"UNKNOWN", "US"}

\* the 0-based indices of the lookups of the event log, in order
RECURSIVE LookupIndices(_)
LookupIndices(log) ==
    IF log = <<>> THEN <<>>
    ELSE IF log[1][1] = "lookup"
    THEN <<log[1][2]>> \o LookupIndices(Tail(log))
    ELSE LookupIndices(Tail(log))

Sleeps(log) == {j \in DOMAIN log : log[j][1] = "sleep"}

\* C10: the lookups are made one after the other in input order; a pause is
\* made exactly before each lookup whose index i has i > 0 and i mod 10 = 0,
\* so never more than 10 lookups follow each other without a pause, no pause
\* comes first or last, and n >= 1 coordinates take floor((n-1)/10) pauses.
C10_PausePerBatch ==
    pc = "geocode_done"
        => LET n == Len(coordinates)
           IN  /\ LookupIndices(events) = [k \in 1..n |-> k - 1]
               /\ \A j \in DOMAIN events :
                      events[j][1] = "lookup"
                          => ((events[j][2] > 0 /\ events[j][2] % 10 = 0)
                                 <=> (j > 1 /\ events[j - 1][1] = "sleep"))
               /\ \A j \in Sleeps(events) :
                      j < Len(events) /\ events[j + 1][1] = "lookup"
               /\ \A j \in DOMAIN events :
                      j + 10 <= Len(events)
                          => \E k \in j..(j + 10) : events[k][1] = "sleep"
               /\ n >= 1 => Cardinality(Sleeps(events)) = (n - 1) \div 10

C10_Witness ==
    /\ pc = "geocode_done"
    /\ Len(coordinates) = 21
    /\ Cardinality(Sleeps(events)) = 2
    /\ events[11] = <<"sleep">>
    /\ events[12] = <<"lookup", 10>>
    /\ events[Len(events)] = <<"lookup", 20>>

\* ------------------------------------------------------------------------
\* a request naming one region twice
\* ------------------------------------------------------------------------

\* the coordinates of the last registry entry of that name
LastEntryCoords(name) ==
    LET matching == {i \in DOMAIN metros : metros[i].name = name}
        last == CHOOSE i \in matching : \A j \in matching : j <= i
    IN  IF matching = {} THEN NoCoords
        ELSE <<metros[last].lat, metros[last].lon>>

\* C13: a request whose start and end name the same registered region is
\* rejected with ValueError before any router request; a call gets past the
\* lookup only with two distinct registered names, and then the coordinates
\* passed on are those of the last registry entry of each name.
C13_SameRegionRejected ==
    pc = "done"
        => /\ (call.start_metro = call.end_metro)
                  => /\ outcome.status = "raised"
                     /\ outcome.error = "ValueError"
                     /\ requests = 0
                     /\ call.end_coords = NoCoords
           /\ (outcome.status = "returned" \/ requests > 0)
                  => /\ call.start_metro # call.end_metro
                     /\ call.start_metro \in Registered
                     /\ call.end_metro \in Registered
                     /\ call.start_coords = LastEntryCoords(call.start_metro)
                     /\ call.end_coords = LastEntryCoords(call.end_metro)

C13_Witness ==
    /\ pc = "done"
    /\ call.start_metro = call.end_metro
    /\ call.start_metro \in Registered
    /\ Len(metros) >= 2
    /\ metros[1].name = metros[2].name
    /\ metros[1].name = call.start_metro
    /\ call.start_coords = <<metros[2].lat, metros[2].lon>>
    /\ outcome.status = "raised"
    /\ outcome.error = "ValueError"
    /\ requests = 0

\* ------------------------------------------------------------------------
\* the resampler's choice of vertices
\* ------------------------------------------------------------------------

\* C12: for a polyline P of n > 1 points and total_minutes T >= 1, the point
\* emitted for minute m is P[min(floor(m * (n - 1) / T), n - 1)], for every
\* m in 0..T, and the polyline passed in is unmodified.
C12_NearestLowerIndex ==
    (pc # "start" /\ Len(route_points) > 1 /\ total_duration_minutes >= 1)
        => LET n == Len(route_points)
               T == total_duration_minutes
           IN  /\ Len(sampled_points) = T + 1
               /\ \A m \in 0..T :
                      sampled_points[m + 1]
                          = route_points[Min((m * (n - 1)) \div T, n - 1) + 1]

\* the consequences C12 draws, on their own: every emitted point is a
\* vertex of the polyline, and the vertices are emitted in polyline order
C12_VerticesInOrder ==
    (pc # "start" /\ Len(route_points) > 1 /\ total_duration_minutes >= 1)
        => LET n == Len(route_points)
               T == total_duration_minutes
           IN  /\ \A m \in 0..T :
                      sampled_points[m + 1]
                          = route_points[PointIdx(m, T, n) + 1]
               /\ \A m \in 0..(T - 1) :
                      PointIdx(m, T, n) <= PointIdx(m + 1, T, n)

\* ------------------------------------------------------------------------
\* rolling mean of the per-minute speeds
\* ------------------------------------------------------------------------

\* speed lists of at most MaxSpeeds values, windows from -MaxNegWindow to
\* MaxWindow
MaxSpeeds == 4
MaxWindow == 5
MaxNegWindow == 2

\* the speeds of a list, in km/h: floats of whole value, so that their sums
\* are exact and a mean is the double nearest to an exact fraction, which
\* the fraction stands for
SpeedValues == {Frac(0, 1), Frac(60, 1), Frac(90, 1)}

SpeedInputs == SeqsUpTo(SpeedValues, MaxSpeeds)

\* Python's s[a:b]: a negative bound counts from the end, and both bounds
\* are clamped to 0..len(s)
SliceBound(n, a) == Min(n, Max(0, IF a < 0 THEN a + n ELSE a))

Slice(s, a, b) ==
    LET lo == SliceBound(Len(s), a)
        hi == SliceBound(Len(s), b)
    IN  IF lo < hi THEN SubSeq(s, lo + 1, hi) ELSE <<>>

RECURSIVE Sum(_)
\* sum(window_speeds)
Sum(s) == IF s = <<>> THEN 0 ELSE Head(s)[1] + Sum(Tail(s))

\* start_idx = max(0, i - window // 2)
StartIdx(i, w) == Max(0, i - (w \div 2))

\* mutant: the window stops at index i
EndIdxShort(i, w, n) == Min(n, i + (w \div 2))

\* end_idx = min(len(speeds), i + window // 2 + 1)
EndIdx(i, w, n) == Min(n, i + (w \div 2) + 1)

RECURSIVE RollingLoop(_, _, _, _)
\* the loop of calculate_rolling_mean_speeds from index i on, means holding
\* the values appended so far; an empty window_speeds makes the division
\* raise ZeroDivisionError
RollingLoop(sp, w, i, means) ==
    IF i >= Len(sp)
    THEN [status |-> "returned", error |-> "", means |-> means,
          same |-> FALSE]
    ELSE LET window_speeds ==
                 Slice(sp, StartIdx(i, w), EndIdx(i, w, Len(sp)))
         IN  IF window_speeds = <<>>
             THEN [status |-> "raised", error |-> "ZeroDivisionError",
                   means |-> <<>>, same |-> FALSE]
             ELSE RollingLoop(sp, w, i + 1,
                      Append(means,
                             Frac(Sum(window_speeds), Len(window_speeds))))

\* calculate_rolling_mean_speeds(speeds, window); same tells that the list
\* returned is the list passed in
calculate_rolling_mean_speeds(sp, w) ==
    IF Len(sp) < w
    THEN [status |-> "returned", error |-> "", means |-> sp, same |-> TRUE]
    ELSE RollingLoop(sp, w, 0, <<>>)

InitSpeeds ==
    /\ pc = "measured"
    /\ speeds \in SpeedInputs
    /\ window \in (0 - MaxNegWindow)..MaxWindow
    /\ rolling_means = NoMeans
    /\ IdleSample
    /\ IdleTrajectory
    /\ IdleClassify

\* rolling_means = calculate_rolling_mean_speeds(speeds, window)
RollingMean ==
    /\ pc = "measured"
    /\ rolling_means' = calculate_rolling_mean_speeds(speeds, window)
    /\ pc' = "smoothed"
    /\ UNCHANGED <<speeds, window, sampleVars, trajectoryVars, classifyVars>>

NextSpeeds == RollingMean

SpecSpeeds == InitSpeeds /\ [][NextSpeeds]_vars

RECURSIVE RangeSum(_, _, _)
\* the sum of the speeds at the indices lo, ..., hi - 1, counted from 0
RangeSum(sp, lo, hi) ==
    IF lo >= hi THEN 0 ELSE sp[lo + 1][1] + RangeSum(sp, lo + 1, hi)

\* C11: for every window >= 1 the rolling mean returns a list as long as
\* the speeds: the list passed in when it is shorter than the window, and
\* otherwise at each index i the arithmetic mean of the speeds at the indices
\* from max(0, i - window // 2) to min(len, i + window // 2 + 1) - 1, a range
\* that is never empty.
C11_RollingMean ==
    (pc = "smoothed" /\ window >= 1)
        => /\ rolling_means.status = "returned"
           /\ Len(rolling_means.means) = Len(speeds)
           /\ IF Len(speeds) < window
              THEN rolling_means.same /\ rolling_means.means = speeds
              ELSE \A i \in 0..(Len(speeds) - 1) :
                     LET lo == Max(0, i - (window \div 2))
                         hi == Min(Len(speeds), i + (window \div 2) + 1)
                     IN  /\ lo < hi
                         /\ rolling_means.means[i + 1]
                                = Frac(RangeSum(speeds, lo, hi), hi - lo)

C11_Witness ==
    /\ pc = "smoothed"
    /\ window = 3
    /\ speeds = <<Frac(0, 1), Frac(60, 1), Frac(90, 1), Frac(90, 1)>>
    /\ rolling_means.means
           = <<Frac(30, 1), Frac(50, 1), Frac(80, 1), Frac(90, 1)>>

====
